---- MODULE Spec2Model ----
(***************************************************************************)
(* Bill-session store of the billsplit server: the in-memory map of        *)
(* sessions and the list of saved bills of the bills router, and the       *)
(* request handlers that read and write them.                              *)
(*                                                                         *)
(* Money: a price is an integer number of currency units; an amount that   *)
(* results from `price / sharedWith.length` is kept exactly, as an integer *)
(* number of 1/Scale units (Scale is a common multiple of every divisor    *)
(* that occurs), so that sums of shares are sums of exact rationals. The   *)
(* rounding of IEEE doubles is not modelled. A price arrives as a JSON      *)
(* number or as a JSON string; the validators of the router read both as   *)
(* text and leave the body as it came, so a string stays a string. A       *)
(* string that `+` produces is kept as the list of the numerals that were  *)
(* concatenated.                                                           *)
(* Ids: an id supplied by the caller is a small positive number, NoId      *)
(* stands for a missing (falsy) id and Uuid(n) is the n-th value returned  *)
(* by uuidv4(). A missing sharedWith is the empty list: the handlers treat *)
(* both alike.                                                             *)
(* Time: every new Date() of a handler reads a clock that never goes back. *)
(*                                                                         *)
(* Receipt text of the BillSplitter page: a text is the sequence of its    *)
(* characters, and the three regular expressions of parseReceiptText are   *)
(* matched character by character. A price read by parseFloat is the exact *)
(* decimal, kept as numerator and power-of-ten denominator.                *)
(***************************************************************************)
EXTENDS Integers, Sequences, FiniteSets, TLC

\* ---------------------------------------------------------------- bounds
\* number of sessions the store takes
MaxSessions == 1
\* number of uuidv4() values the model hands out: every session, every bill and
\* every entity that arrives without an id takes one
MaxUuid == 2
\* last value of the clock read by new Date()
MaxClock == 1

\* number of tokens of a generated receipt text
MaxTokens == 5

\* ------------------------------------------------------------ input data
NoId == 0
Uuid(n) == 100 + n

\* an item whose price is the JSON number `price`
Item(id, name, price, sharedWith) ==
  [id |-> id, name |-> name, price |-> price, priceIs |-> "number",
   sharedWith |-> sharedWith]

\* the same item with the price sent as a JSON string: the numeral of `price`
\* ("numeric string") or a text that is no numeral ("other string")
PricedAs(item, kind) == [item EXCEPT !.priceIs = kind]

Friend(id, name) == [id |-> id, name |-> name]

\* request bodies of PUT items: no item; an item shared by friends 1 and 2; the
\* same followed by an item of friend 1 alone; an unassigned item without an id;
\* an item with an empty name; an item with a negative price; an item whose
\* price is a text that is no numeral
ItemListInputs ==
  {<<>>,
   <<Item(1, "Tea", 10, <<1, 2>>)>>,
   <<Item(1, "Tea", 10, <<1, 2>>), Item(2, "Pie", 5, <<1>>)>>,
   <<Item(NoId, "Nan", 5, <<>>)>>,
   <<Item(1, "", 5, <<1>>)>>,
   <<Item(1, "Pie", -1, <<1>>)>>,
   <<PricedAs(Item(1, "Pie", 0, <<1>>), "other string")>>}

\* request bodies of PUT friends: nobody; friend 1; friends 1 and 2; a friend
\* without an id; a friend with an empty name
FriendListInputs ==
  {<<>>,
   <<Friend(1, "Ann")>>,
   <<Friend(1, "Ann"), Friend(2, "Bob")>>,
   <<Friend(NoId, "Cat")>>,
   <<Friend(1, "")>>}

\* bodies (items, friends) of a save-bill request that are not the lists of a
\* stored session: a valid one and one with an empty item name
BillBodyInputs ==
  {<<(<<Item(2, "Pie", 5, <<1>>)>>), (<<Friend(1, "Ann")>>)>>,
   <<(<<Item(1, "", 5, <<1>>)>>), (<<Friend(1, "Ann")>>)>>}

\* request bodies of PUT items that the validators let through although a
\* client of the wizard never sends them: a friend listed twice in sharedWith;
\* a price sent as a string, next to an unassigned item; two items with one id
OddItemListInputs ==
  {<<Item(1, "Tea", 10, <<1, 1, 2>>)>>,
   <<PricedAs(Item(1, "Tea", 10, <<1>>), "numeric string"), Item(2, "Pie", 5, <<>>)>>,
   <<Item(1, "Tea", 10, <<1>>), Item(1, "Pie", 5, <<2>>)>>}

\* request bodies of PUT friends: friends 1 and 2; two friends with one id
OddFriendListInputs ==
  {<<Friend(1, "Ann"), Friend(2, "Bob")>>,
   <<Friend(1, "Ann"), Friend(1, "Bob")>>}

\* request bodies sent when the store holds two sessions
TwoItemListInputs == {<<Item(1, "Tea", 10, <<1>>)>>}

TwoFriendListInputs == {<<Friend(1, "Ann")>>}

RECURSIVE Factorial(_)
Factorial(n) == IF n <= 1 THEN 1 ELSE n * Factorial(n - 1)

\* the longest sharedWith list of the inputs
MaxShared ==
  LET lists == ItemListInputs \cup OddItemListInputs
                 \cup {body[1] : body \in BillBodyInputs}
      lens == UNION {{Len(l[i].sharedWith) : i \in DOMAIN l} : l \in lists}
  IN CHOOSE n \in lens : \A m \in lens : m <= n

\* amounts are counted in 1/Scale units: every divisor 1..MaxShared divides Scale
Scale == Factorial(MaxShared)

\* billSessions: the Map sessionId -> session;  bills: the array of saved bills;
\* uuidCount: how many values uuidv4() has returned;  now: the last clock value
\* read;  res: the response to the last request (status code and data)
VARIABLES billSessions, bills, uuidCount, now, res

\* state of the BillSplitter page.  isProcessingOCR: processOCR is running;
\* extractedText: the text Tesseract.recognize yields;  extractedItems: what
\* parseReceiptText made of it;  splitterItems: the `items` of the page;
\* toast: the title of the last toast
VARIABLES isProcessingOCR, extractedText, extractedItems, splitterItems, toast

\* state of the app around the routers.  hits: the requests the limiter has
\* counted for each ip in its current window;  uploadDir: the ids of the files
\* in the upload directory;  accessLog: for each ip, how many lines
\* "POST /api/v1/upload/receipt 201" the access log has got since the
\* limiter's window began;  reply: what the client of the last request received
VARIABLES hits, uploadDir, accessLog, reply

\* state of useBillSession and of its requests.  hookSession: the hook's
\* `session`, <<>> for null;  loading, error: the hook's flags, error <<>> for
\* null;  requests: the requests on their way to the server;  responses: the
\* answers on their way back
VARIABLES hookSession, loading, error, requests, responses

\* more state of the BillSplitter page.  step: the step on display;
\* billImage: <<>> for null, else <<the text its recognition yields>>;
\* splitterFriends: the `friends` of the page
VARIABLES step, billImage, splitterFriends

serverVars == <<billSessions, bills, uuidCount, now, res>>

pageVars == <<isProcessingOCR, extractedText, extractedItems, splitterItems, toast>>

appVars == <<hits, uploadDir, accessLog, reply>>

hookVars == <<hookSession, loading, error, requests, responses>>

wizardVars == <<step, billImage, splitterFriends>>

vars == <<billSessions, bills, uuidCount, now, res,
          isProcessingOCR, extractedText, extractedItems, splitterItems, toast,
          hits, uploadDir, accessLog, reply,
          hookSession, loading, error, requests, responses,
          step, billImage, splitterFriends>>

\* ids a request may name: every stored session and one id that was never issued
SessionIdInputs == DOMAIN billSessions \cup {Uuid(0)}

\* ------------------------------------------------------------- helpers
Range(s) == {s[i] : i \in DOMAIN s}

\* a validation of items that looks at the names only
ValidItemNames(items) == \A i \in DOMAIN items : items[i].name # ""

\* body('items.*.name').notEmpty(), body('items.*.price').isFloat({ min: 0 })
ValidItems(items) ==
  \A i \in DOMAIN items :
    /\ items[i].name # ""
    /\ items[i].priceIs # "other string"
    /\ items[i].price >= 0

\* body('friends.*.name').notEmpty()
ValidFriends(friends) == \A i \in DOMAIN friends : friends[i].name # ""

\* number of entries of list[1..k] that have no id, i.e. of uuidv4() calls so far
Missing(list, k) == Cardinality({j \in 1..k : list[j].id = NoId})

\* list.map(x => ({ ...x, id: x.id || uuidv4() }))
WithIds(list, base) ==
  [i \in DOMAIN list |->
     IF list[i].id # NoId THEN list[i]
     ELSE [list[i] EXCEPT !.id = Uuid(base + Missing(list, i))]]

\* friends.forEach(friend => { totals[friend.id] = 0; })
InitTotals(friends) == [fid \in {friends[i].id : i \in DOMAIN friends} |-> 0]

\* item.price / item.sharedWith.length, in 1/Scale units
SplitAmount(item) == (item.price * Scale) \div Len(item.sharedWith)

\* item.sharedWith.forEach(friendId => { if (totals[friendId] !== undefined) ... })
RECURSIVE AddShares(_, _, _, _)
AddShares(totals, sharedWith, k, splitAmount) ==
  IF k > Len(sharedWith) THEN totals
  ELSE AddShares(
         IF sharedWith[k] \in DOMAIN totals
           THEN [totals EXCEPT ![sharedWith[k]] = @ + splitAmount]
           ELSE totals,
         sharedWith, k + 1, splitAmount)

\* items.forEach(item => { if (item.sharedWith && item.sharedWith.length > 0) ... })
RECURSIVE AddItems(_, _, _)
AddItems(totals, items, k) ==
  IF k > Len(items) THEN totals
  ELSE AddItems(
         IF Len(items[k].sharedWith) > 0
           THEN AddShares(totals, items[k].sharedWith, 1, SplitAmount(items[k]))
           ELSE totals,
         items, k + 1)

ComputeTotals(items, friends) == AddItems(InitTotals(friends), items, 1)

\* a split list that leaves out the friends who owe nothing
ComputeSplitsOfDebtors(items, friends) ==
  LET totals == ComputeTotals(items, friends)
      Owes(friend) == totals[friend.id] # 0
      debtors == SelectSeq(friends, Owes)
  IN [i \in DOMAIN debtors |->
        [friendId |-> debtors[i].id, friendName |-> debtors[i].name,
         amount |-> totals[debtors[i].id]]]

\* session.friends.map(friend => ({ friendId, friendName, amount: totals[friend.id] || 0 }))
ComputeSplits(items, friends) ==
  LET totals == ComputeTotals(items, friends)
  IN [i \in DOMAIN friends |->
        [friendId |-> friends[i].id, friendName |-> friends[i].name,
         amount |-> totals[friends[i].id]]]

\* a JavaScript number, in 1/Scale units
Number(n) == [isString |-> FALSE, parts |-> <<n>>]

\* sum + item.price : an addition of two numbers, a concatenation of the two
\* numerals as soon as one operand is a string
Plus(sum, item) ==
  IF ~sum.isString /\ item.priceIs = "number"
    THEN Number(sum.parts[1] + item.price * Scale)
    ELSE [isString |-> TRUE, parts |-> Append(sum.parts, item.price * Scale)]

\* items.reduce((sum, item) => sum + item.price, 0) from item k on
RECURSIVE SumPrices(_, _, _)
SumPrices(sum, items, k) ==
  IF k > Len(items) THEN sum ELSE SumPrices(Plus(sum, items[k]), items, k + 1)

TotalBill(items) == SumPrices(Number(0), items, 1)

\* ------------------------------------------------- the helpers (part_003)
\* item.sharedWith.forEach(friendId => { if (totals[friendId] !== undefined)
\* totals[friendId] += splitAmount }), from the k-th id on
RECURSIVE SplitOver(_, _, _)
SplitOver(totals, item, k) ==
  IF k > Len(item.sharedWith) THEN totals
  ELSE LET friendId == item.sharedWith[k]
           splitAmount == (item.price * Scale) \div Len(item.sharedWith)
       IN SplitOver(IF friendId \in DOMAIN totals
                      THEN [totals EXCEPT ![friendId] = @ + splitAmount]
                      ELSE totals,
                    item, k + 1)

\* items.forEach(item => { if (item.sharedWith && item.sharedWith.length > 0) ... }),
\* from the k-th item on
RECURSIVE SplitItems(_, _, _)
SplitItems(totals, items, k) ==
  IF k > Len(items) THEN totals
  ELSE SplitItems(IF Len(items[k].sharedWith) > 0
                    THEN SplitOver(totals, items[k], 1)
                    ELSE totals,
                  items, k + 1)

\* what an item adds to the total of a friend who is charged once for it,
\* however often sharedWith names the friend
ShareOnce(item, fid) ==
  IF fid \in Range(item.sharedWith)
    THEN (item.price * Scale) \div Len(item.sharedWith)
    ELSE 0

RECURSIVE SumSharesOnce(_, _, _)
SumSharesOnce(items, fid, k) ==
  IF k > Len(items) THEN 0
  ELSE ShareOnce(items[k], fid) + SumSharesOnce(items, fid, k + 1)

\* a calculateBillSplit that charges a friend once per item
calculateBillSplitOnce(items, friends) ==
  [fid \in {friends[i].id : i \in DOMAIN friends} |-> SumSharesOnce(items, fid, 1)]

calculateBillSplit(items, friends) ==
  SplitItems([fid \in {friends[i].id : i \in DOMAIN friends} |-> 0], items, 1)

\* item.price || 0 : the number 0 is the only price that is replaced, by 0
PriceOrZero(item) ==
  IF item.priceIs = "number" /\ item.price = 0
    THEN [item EXCEPT !.price = 0, !.priceIs = "number"]
    ELSE item

\* items.reduce((sum, item) => sum + (item.price || 0), 0) from item k on
RECURSIVE SumPricesOrZero(_, _, _)
SumPricesOrZero(sum, items, k) ==
  IF k > Len(items) THEN sum
  ELSE SumPricesOrZero(Plus(sum, PriceOrZero(items[k])), items, k + 1)

calculateTotalBill(items) == SumPricesOrZero(Number(0), items, 1)

Response(op, sid, code, data) == [op |-> op, sid |-> sid, code |-> code, data |-> data]

\* --------------------------------------------------------------- state
InitServer ==
  /\ billSessions = <<>>
  /\ bills = <<>>
  /\ uuidCount = 0
  /\ now = 0
  /\ res = Response("none", NoId, 0, <<>>)

\* the useState(...) initial values of BillSplitter
InitPage ==
  /\ isProcessingOCR = FALSE
  /\ extractedText = <<>>
  /\ extractedItems = <<>>
  /\ splitterItems = <<>>
  /\ toast = ""

\* rateLimit({ max }) of the app's limiter
LimiterMax == 100

\* rateLimit({ max }) of uploadRateLimit
UploadMax == 5

\* the upload directory holds at most this many files
MaxFiles == 6

ClientIPs == {"10.0.0.1"}

\* the file part of a multipart request: the field it is sent in, its declared
\* type <<type, subtype>> (written type/subtype), whether it is longer than
\* limits.fileSize and whether sharp can decode it
File(fieldname, mimetype, tooLarge, decodable) ==
  [fieldname |-> fieldname, mimetype |-> mimetype,
   tooLarge |-> tooLarge, decodable |-> decodable]

FileInputs ==
  {File("receipt", <<"image", "jpeg">>, FALSE, TRUE),
   File("receipt", <<"image", "png">>, FALSE, TRUE),
   File("receipt", <<"image", "webp">>, FALSE, TRUE),
   File("receipt", <<"image", "gif">>, FALSE, TRUE),
   File("receipt", <<"application", "pdf">>, FALSE, FALSE),
   File("receipt", <<"image", "jpeg">>, TRUE, TRUE),
   File("receipt", <<"image", "jpeg">>, FALSE, FALSE),
   File("photo", <<"image", "jpeg">>, FALSE, TRUE)}

\* the file parts of a request: none or one
FilePartInputs == {<<>>} \cup {<<file>> : file \in FileInputs}

\* file.mimetype.startsWith('image/')
fileFilter(file) == file.mimetype[1] = "image"

isValidImageFile(mimetype) ==
  mimetype \in {<<"image", "jpeg">>, <<"image", "jpg">>, <<"image", "png">>,
                <<"image", "webp">>}

\* what the client receives: the status and the body, with the request it answers
Reply(ip, route, parts, status, body) ==
  [ip |-> ip, route |-> route, parts |-> parts, status |-> status, body |-> body]

\* the app has answered no request and stored no file
InitApp ==
  /\ hits = [ip \in ClientIPs |-> 0]
  /\ uploadDir = {}
  /\ accessLog = [ip \in ClientIPs |-> 0]
  /\ reply = Reply("", "none", <<>>, 0, <<>>)

\* the useState(...) initial values of useBillSession; nothing was requested
InitHook ==
  /\ hookSession = <<>>
  /\ loading = FALSE
  /\ error = <<>>
  /\ requests = {}
  /\ responses = {}

\* the other useState(...) initial values of BillSplitter
InitWizard ==
  /\ step = "photo"
  /\ billImage = <<>>
  /\ splitterFriends = <<>>

Init == InitServer /\ InitPage /\ InitApp /\ InitHook /\ InitWizard

\* new Date(): the clock shows the time of the previous request or a later one
ClockValues == now..(now + 1)

\* a second new Date() in the same handler, after one that returned t
LaterClockValues(t) == t..(t + 1)

\* router.post('/session')
CreateSession ==
  \E t \in ClockValues : \E u \in LaterClockValues(t) :
    /\ LET sessionId == Uuid(uuidCount + 1)
           session == [id |-> sessionId, createdAt |-> t, updatedAt |-> u,
                       items |-> <<>>, friends |-> <<>>, splits |-> <<>>,
                       status |-> "draft", totalAmount |-> <<>>]
       IN /\ billSessions' = [s \in DOMAIN billSessions \cup {sessionId} |->
                                IF s = sessionId THEN session ELSE billSessions[s]]
          /\ res' = Response("createSession", sessionId, 201, <<session>>)
    /\ uuidCount' = uuidCount + 1
    /\ now' = u
    /\ UNCHANGED bills

\* a GET session that answers 200 without data for an id it does not know
GetSessionLenient(sessionId) ==
  /\ res' = IF sessionId \notin DOMAIN billSessions
              THEN Response("getSession", sessionId, 200, <<>>)
              ELSE Response("getSession", sessionId, 200, <<billSessions[sessionId]>>)
  /\ UNCHANGED <<billSessions, bills, uuidCount, now>>

\* router.get('/session/:sessionId')
GetSession(sessionId) ==
  /\ res' = IF sessionId \notin DOMAIN billSessions
              THEN Response("getSession", sessionId, 404, <<>>)
              ELSE Response("getSession", sessionId, 200, <<billSessions[sessionId]>>)
  /\ UNCHANGED <<billSessions, bills, uuidCount, now>>

\* a PUT items that also marks the session as calculated
PutItemsCalculating(sessionId, items) ==
  IF ~ValidItems(items)
    THEN /\ res' = Response("putItems", sessionId, 400, <<>>)
         /\ UNCHANGED <<billSessions, bills, uuidCount, now>>
  ELSE IF sessionId \notin DOMAIN billSessions
    THEN /\ res' = Response("putItems", sessionId, 404, <<>>)
         /\ UNCHANGED <<billSessions, bills, uuidCount, now>>
  ELSE \E t \in ClockValues :
         /\ LET session == [billSessions[sessionId] EXCEPT
                              !.items = WithIds(items, uuidCount),
                              !.status = "calculated", !.updatedAt = t]
            IN /\ billSessions' = [billSessions EXCEPT ![sessionId] = session]
               /\ res' = Response("putItems", sessionId, 200, <<session>>)
         /\ uuidCount' = uuidCount + Missing(items, Len(items))
         /\ now' = t
         /\ UNCHANGED bills

\* router.put('/session/:sessionId/items')
PutItems(sessionId, items) ==
  IF ~ValidItems(items)
    THEN /\ res' = Response("putItems", sessionId, 400, <<>>)
         /\ UNCHANGED <<billSessions, bills, uuidCount, now>>
  ELSE IF sessionId \notin DOMAIN billSessions
    THEN /\ res' = Response("putItems", sessionId, 404, <<>>)
         /\ UNCHANGED <<billSessions, bills, uuidCount, now>>
  ELSE \E t \in ClockValues :
         /\ LET itemsWithIds == WithIds(items, uuidCount)
                session == [billSessions[sessionId] EXCEPT
                              !.items = itemsWithIds, !.updatedAt = t]
            IN /\ billSessions' = [billSessions EXCEPT ![sessionId] = session]
               /\ res' = Response("putItems", sessionId, 200, <<session>>)
         /\ uuidCount' = uuidCount + Missing(items, Len(items))
         /\ now' = t
         /\ UNCHANGED bills

\* router.put('/session/:sessionId/friends')
PutFriends(sessionId, friends) ==
  IF ~ValidFriends(friends)
    THEN /\ res' = Response("putFriends", sessionId, 400, <<>>)
         /\ UNCHANGED <<billSessions, bills, uuidCount, now>>
  ELSE IF sessionId \notin DOMAIN billSessions
    THEN /\ res' = Response("putFriends", sessionId, 404, <<>>)
         /\ UNCHANGED <<billSessions, bills, uuidCount, now>>
  ELSE \E t \in ClockValues :
         /\ LET friendsWithIds == WithIds(friends, uuidCount)
                session == [billSessions[sessionId] EXCEPT
                              !.friends = friendsWithIds, !.updatedAt = t]
            IN /\ billSessions' = [billSessions EXCEPT ![sessionId] = session]
               /\ res' = Response("putFriends", sessionId, 200, <<session>>)
         /\ uuidCount' = uuidCount + Missing(friends, Len(friends))
         /\ now' = t
         /\ UNCHANGED bills

\* a calculate that adds the new shares to the amounts already stored in
\* session.splits instead of starting every friend at 0
CalculatedAccumulating(session, t) ==
  LET fresh == ComputeSplits(session.items, session.friends)
  IN [session EXCEPT
        !.splits = [i \in DOMAIN fresh |->
                      IF i \in DOMAIN session.splits
                        THEN [fresh[i] EXCEPT !.amount = @ + session.splits[i].amount]
                        ELSE fresh[i]],
        !.totalAmount = <<TotalBill(session.items)>>,
        !.status = "calculated",
        !.updatedAt = t]

\* the session as router.post('/session/:sessionId/calculate') leaves it at time t
Calculated(session, t) ==
  [session EXCEPT !.splits = ComputeSplits(session.items, session.friends),
                  !.totalAmount = <<TotalBill(session.items)>>,
                  !.status = "calculated",
                  !.updatedAt = t]

\* a calculate that recomputes every session of the store
CalculateAll(sessionId) ==
  IF sessionId \notin DOMAIN billSessions
    THEN /\ res' = Response("calculate", sessionId, 404, <<>>)
         /\ UNCHANGED <<billSessions, bills, uuidCount, now>>
  ELSE \E t \in ClockValues :
         /\ billSessions' = [s \in DOMAIN billSessions |-> Calculated(billSessions[s], t)]
         /\ res' = Response("calculate", sessionId, 200, <<billSessions'[sessionId]>>)
         /\ now' = t
         /\ UNCHANGED <<bills, uuidCount>>

\* router.post('/session/:sessionId/calculate')
Calculate(sessionId) ==
  IF sessionId \notin DOMAIN billSessions
    THEN /\ res' = Response("calculate", sessionId, 404, <<>>)
         /\ UNCHANGED <<billSessions, bills, uuidCount, now>>
  ELSE \E t \in ClockValues :
         /\ LET session == Calculated(billSessions[sessionId], t)
            IN /\ billSessions' = [billSessions EXCEPT ![sessionId] = session]
               /\ res' = Response("calculate", sessionId, 200, <<session>>)
         /\ now' = t
         /\ UNCHANGED <<bills, uuidCount>>

\* router.post('/') : save final bill; sessionId is NoId when the body has none
SaveBill(items, friends, sessionId) ==
  IF ~(ValidItems(items) /\ ValidFriends(friends))
    THEN /\ res' = Response("saveBill", sessionId, 400, <<>>)
         /\ UNCHANGED <<billSessions, bills, uuidCount, now>>
  ELSE \E t \in ClockValues : \E u \in LaterClockValues(t) :
         /\ LET bill == [id |-> Uuid(uuidCount + 1), sessionId |-> sessionId,
                         items |-> items, friends |-> friends,
                         totals |-> ComputeTotals(items, friends),
                         totalBill |-> TotalBill(items),
                         createdAt |-> t, updatedAt |-> u]
            IN /\ bills' = Append(bills, bill)
               /\ res' = Response("saveBill", sessionId, 201, <<bill>>)
         /\ uuidCount' = uuidCount + 1
         /\ now' = u
         /\ UNCHANGED billSessions

\* what a client puts in the body of a save-bill request: the lists of a stored
\* session (useBillSession.saveBill sends session.items and session.friends)
\* or lists of its own
BillBodies ==
  BillBodyInputs
    \cup {<<billSessions[s].items, billSessions[s].friends>> : s \in DOMAIN billSessions}

\* the part of the behaviours that is explored: the store holds at most
\* maxSessions sessions, uuidv4() has returned at most maxUuid values and the
\* clock has not passed maxClock
Within(maxSessions, maxUuid, maxClock) ==
  /\ Cardinality(DOMAIN billSessions') <= maxSessions
  /\ uuidCount' <= maxUuid
  /\ now' <= maxClock

\* a step of the server within the bounds: the page is not involved
Bounded == Within(MaxSessions, MaxUuid, MaxClock) /\ UNCHANGED <<pageVars, appVars, hookVars, wizardVars>>

Next ==
  \/ CreateSession /\ Bounded
  \/ \E sessionId \in SessionIdInputs : GetSession(sessionId) /\ Bounded
  \/ \E sessionId \in SessionIdInputs, items \in ItemListInputs :
       PutItems(sessionId, items) /\ Bounded
  \/ \E sessionId \in SessionIdInputs, friends \in FriendListInputs :
       PutFriends(sessionId, friends) /\ Bounded
  \/ \E sessionId \in SessionIdInputs : Calculate(sessionId) /\ Bounded
  \/ \E body \in BillBodies, sessionId \in DOMAIN billSessions \cup {NoId} :
       SaveBill(body[1], body[2], sessionId) /\ Bounded

Spec == Init /\ [][Next]_vars

\* the same server, sent the request bodies of OddItemListInputs and
\* OddFriendListInputs
NextOdd ==
  \/ CreateSession /\ Bounded
  \/ \E sessionId \in SessionIdInputs : GetSession(sessionId) /\ Bounded
  \/ \E sessionId \in SessionIdInputs, items \in OddItemListInputs :
       PutItems(sessionId, items) /\ Bounded
  \/ \E sessionId \in SessionIdInputs, friends \in OddFriendListInputs :
       PutFriends(sessionId, friends) /\ Bounded
  \/ \E sessionId \in SessionIdInputs : Calculate(sessionId) /\ Bounded
  \/ \E sessionId \in DOMAIN billSessions :
       SaveBill(billSessions[sessionId].items, billSessions[sessionId].friends,
                sessionId) /\ Bounded

SpecOdd == Init /\ [][NextOdd]_vars

\* the same server with room for one more session and one more uuid, sent the
\* request bodies of TwoItemListInputs and TwoFriendListInputs
BoundedTwo ==
  Within(MaxSessions + 1, MaxUuid + 1, MaxClock) /\ UNCHANGED <<pageVars, appVars, hookVars, wizardVars>>

NextTwo ==
  \/ CreateSession /\ BoundedTwo
  \/ \E sessionId \in SessionIdInputs : GetSession(sessionId) /\ BoundedTwo
  \/ \E sessionId \in SessionIdInputs, items \in TwoItemListInputs :
       PutItems(sessionId, items) /\ BoundedTwo
  \/ \E sessionId \in SessionIdInputs, friends \in TwoFriendListInputs :
       PutFriends(sessionId, friends) /\ BoundedTwo
  \/ \E sessionId \in SessionIdInputs : Calculate(sessionId) /\ BoundedTwo
  \/ \E sessionId \in DOMAIN billSessions :
       SaveBill(billSessions[sessionId].items, billSessions[sessionId].friends,
                sessionId) /\ BoundedTwo

SpecTwo == Init /\ [][NextTwo]_vars

\* ------------------------------------------------ receipt text (page)
\* the pieces generated receipt texts are made of: an item name, a reserved
\* word with a capital, a blank, a dollar sign, a digit, a point, a line break
Tokens ==
  {<<"T", "e", "a">>, <<"T", "i", "p">>, <<" ">>, <<"$">>, <<"5">>, <<".">>, <<"\n">>}

\* the texts made of exactly n tokens
RECURSIVE TextsOf(_)
TextsOf(n) ==
  IF n = 0 THEN {<<>>} ELSE {text \o token : text \in TextsOf(n - 1), token \in Tokens}

\* a receipt of five lines: "Caesar Salad 12.99", "Iced Tea $3.50",
\* "Subtotal 16.49", "Tax 1.32", "Total 17.81"
ReceiptText ==
  <<"C", "a", "e", "s", "a", "r", " ", "S", "a", "l", "a", "d", " ", "1",
    "2", ".", "9", "9", "\n", "I", "c", "e", "d", " ", "T", "e", "a", " ",
    "$", "3", ".", "5", "0", "\n", "S", "u", "b", "t", "o", "t", "a", "l",
    " ", "1", "6", ".", "4", "9", "\n", "T", "a", "x", " ", "1", ".", "3",
    "2", "\n", "T", "o", "t", "a", "l", " ", "1", "7", ".", "8", "1">>

\* receipt texts written out: the receipt, "SUBTOTAL 5", "Tea 5 total",
\* "Tea $0 5.50", "Pizza 2 12.99", "Tea 8.50$"
WrittenTextInputs ==
  {ReceiptText,
   <<"S", "U", "B", "T", "O", "T", "A", "L", " ", "5">>,
   <<"T", "e", "a", " ", "5", " ", "t", "o", "t", "a", "l">>,
   <<"T", "e", "a", " ", "$", "0", " ", "5", ".", "5", "0">>,
   <<"P", "i", "z", "z", "a", " ", "2", " ", "1", "2", ".", "9", "9">>,
   <<"T", "e", "a", " ", "8", ".", "5", "0", "$">>}

\* result.data.text : what the recognition may yield
TextInputs == WrittenTextInputs \cup UNION {TextsOf(n) : n \in 0..MaxTokens}

\* an item typed in by hand before the photo is taken (addItem)
ManualItem ==
  [id |-> <<"manual", 0>>, name |-> <<"P", "i", "e">>,
   price |-> [num |-> 5, den |-> 1], sharedWith |-> <<>>]

\* white space of \s and of trim()
IsSpace(c) == c \in {" ", "\t", "\n", "\r"}

DigitChars == <<"0", "1", "2", "3", "4", "5", "6", "7", "8", "9">>

\* \d
IsDigit(c) == \E d \in DOMAIN DigitChars : DigitChars[d] = c

DigitValue(c) == (CHOOSE d \in DOMAIN DigitChars : DigitChars[d] = c) - 1

\* text.split('\n')
RECURSIVE Split(_)
Split(text) ==
  IF \A i \in DOMAIN text : text[i] # "\n" THEN <<text>>
  ELSE LET i == CHOOSE j \in DOMAIN text :
                  text[j] = "\n" /\ \A k \in 1..(j - 1) : text[k] # "\n"
       IN <<SubSeq(text, 1, i - 1)>> \o Split(SubSeq(text, i + 1, Len(text)))

\* String.prototype.trim
Trim(str) ==
  LET inked == {i \in DOMAIN str : ~IsSpace(str[i])}
  IN IF inked = {} THEN <<>>
     ELSE SubSeq(str, CHOOSE i \in inked : \A j \in inked : i <= j,
                      CHOOSE i \in inked : \A j \in inked : j <= i)

\* the index after the longest run of white space that starts at i
SpacesEnd(line, i) ==
  CHOOSE e \in i..(Len(line) + 1) :
    /\ \A j \in i..(e - 1) : IsSpace(line[j])
    /\ e <= Len(line) => ~IsSpace(line[e])

\* the index after the longest run of digits that starts at i
DigitsEnd(line, i) ==
  CHOOSE e \in i..(Len(line) + 1) :
    /\ \A j \in i..(e - 1) : IsDigit(line[j])
    /\ e <= Len(line) => ~IsDigit(line[e])

DigitAt(line, i) == i <= Len(line) /\ IsDigit(line[i])

\* where group 2 starts when what follows (.+?) in the pattern matches at p,
\* and 0 when it does not.  Pattern 1: \s+\$?(\d...   2: \s+(\d...   3: \$(\d...
PriceStart(pattern, line, p) ==
  IF pattern = 3
    THEN IF line[p] = "$" /\ DigitAt(line, p + 1) THEN p + 1 ELSE 0
  ELSE IF ~IsSpace(line[p]) THEN 0
  ELSE LET q == SpacesEnd(line, p)
           r == IF pattern = 1 /\ q <= Len(line) /\ line[q] = "$" THEN q + 1 ELSE q
       IN IF DigitAt(line, r) THEN r ELSE 0

\* the index after group 2, (\d+\.?\d*), that starts at q
PriceEnd(line, q) ==
  LET e == DigitsEnd(line, q)
  IN IF e <= Len(line) /\ line[e] = "." THEN DigitsEnd(line, e + 1) ELSE e

\* line.match(pattern): <<match[1], match[2]>>, or <<>> for null.  The lazy
\* (.+?) takes the fewest characters (at least one) from the start of the line
Match(pattern, line) ==
  LET ends == {p \in 2..Len(line) : PriceStart(pattern, line, p) # 0}
  IN IF ends = {} THEN <<>>
     ELSE LET p == CHOOSE e \in ends : \A f \in ends : e <= f
              q == PriceStart(pattern, line, p)
          IN <<SubSeq(line, 1, p - 1), SubSeq(line, q, PriceEnd(line, q) - 1)>>

\* the number a run of digits writes
RECURSIVE NatOf(_)
NatOf(digits) ==
  IF digits = <<>> THEN 0
  ELSE 10 * NatOf(SubSeq(digits, 1, Len(digits) - 1)) + DigitValue(digits[Len(digits)])

RECURSIVE WithoutTrailingZeros(_)
WithoutTrailingZeros(digits) ==
  IF digits # <<>> /\ digits[Len(digits)] = "0"
    THEN WithoutTrailingZeros(SubSeq(digits, 1, Len(digits) - 1))
    ELSE digits

RECURSIVE PowerOfTen(_)
PowerOfTen(n) == IF n = 0 THEN 1 ELSE 10 * PowerOfTen(n - 1)

\* parseFloat of a numeral digits[.digits]
parseFloat(numeral) ==
  LET points == {i \in DOMAIN numeral : numeral[i] = "."}
      point == IF points = {} THEN Len(numeral) + 1 ELSE CHOOSE i \in points : TRUE
      fraction == WithoutTrailingZeros(SubSeq(numeral, point + 1, Len(numeral)))
  IN [num |-> NatOf(SubSeq(numeral, 1, point - 1) \o fraction),
      den |-> PowerOfTen(Len(fraction))]

UpperChars ==
  <<"A", "B", "C", "D", "E", "F", "G", "H", "I", "J", "K", "L", "M",
    "N", "O", "P", "Q", "R", "S", "T", "U", "V", "W", "X", "Y", "Z">>

LowerChars ==
  <<"a", "b", "c", "d", "e", "f", "g", "h", "i", "j", "k", "l", "m",
    "n", "o", "p", "q", "r", "s", "t", "u", "v", "w", "x", "y", "z">>

\* String.prototype.toLowerCase
toLowerCase(str) ==
  [i \in DOMAIN str |->
     IF \E u \in DOMAIN UpperChars : UpperChars[u] = str[i]
       THEN LowerChars[CHOOSE u \in DOMAIN UpperChars : UpperChars[u] = str[i]]
       ELSE str[i]]

\* String.prototype.includes
Includes(str, word) ==
  \E i \in 1..(Len(str) - Len(word) + 1) : SubSeq(str, i, i + Len(word) - 1) = word

\* 'total', 'tax', 'subtotal', 'tip'
ReservedWords ==
  {<<"t", "o", "t", "a", "l">>, <<"t", "a", "x">>,
   <<"s", "u", "b", "t", "o", "t", "a", "l">>, <<"t", "i", "p">>}

\* an acceptance test that does not look at the length of the name
AcceptedAnyLength(name, price) ==
  /\ name # <<>>
  /\ price.num > 0
  /\ \A word \in {<<"t", "o", "t", "a", "l">>, <<"t", "a", "x">>,
                   <<"s", "u", "b", "t", "o", "t", "a", "l">>, <<"t", "i", "p">>} :
       ~Includes(toLowerCase(name), word)

\* an acceptance test that knows the reserved word 'total' only
AcceptedButTotal(name, price) ==
  /\ name # <<>>
  /\ price.num > 0
  /\ ~Includes(toLowerCase(name), <<"t", "o", "t", "a", "l">>)
  /\ Len(name) > 2

\* if (name && price > 0 && !name.toLowerCase().includes(...) && name.length > 2)
Accepted(name, price) ==
  /\ name # <<>>
  /\ price.num > 0
  /\ \A word \in ReservedWords : ~Includes(toLowerCase(name), word)
  /\ Len(name) > 2

\* the patterns, in the order of itemPatterns, whose match on the line is accepted
AcceptingPatterns(line) ==
  {pattern \in 1..3 :
     LET match == Match(pattern, line)
     IN match # <<>> /\ Accepted(Trim(match[1]), parseFloat(match[2]))}

\* a loop body that puts the new item in front of the list
ParseLineNewestFirst(line, list, t) ==
  IF AcceptingPatterns(line) = {} THEN list
  ELSE LET pattern == CHOOSE a \in AcceptingPatterns(line) :
                         \A b \in AcceptingPatterns(line) : a <= b
           match == Match(pattern, line)
       IN <<[id |-> <<"ocr", t, Len(list)>>, name |-> Trim(match[1]),
             price |-> parseFloat(match[2]), sharedWith |-> <<>>]>> \o list

\* the body of `for (const line of lines)`: the item list after the line, when
\* Date.now() reads t
ParseLine(line, list, t) ==
  IF AcceptingPatterns(line) = {} THEN list
  ELSE LET pattern == CHOOSE a \in AcceptingPatterns(line) :
                         \A b \in AcceptingPatterns(line) : a <= b
           match == Match(pattern, line)
       IN Append(list, [id |-> <<"ocr", t, Len(list)>>, name |-> Trim(match[1]),
                        price |-> parseFloat(match[2]), sharedWith |-> <<>>])

RECURSIVE ParseLines(_, _, _, _)
ParseLines(lines, k, list, t) ==
  IF k > Len(lines) THEN list
  ELSE ParseLines(lines, k + 1, ParseLine(lines[k], list, t), t)

\* .filter(line => line.trim())
NotBlank(line) == Trim(line) # <<>>

parseReceiptText(text, t) == ParseLines(SelectSeq(Split(text), NotBlank), 1, <<>>, t)

\* processOCR up to the await: a photo was taken, by a user who has typed in no
\* item or one, and the recognition will yield some text
InitOCR ==
  /\ InitServer
  /\ InitApp
  /\ InitHook
  /\ isProcessingOCR = TRUE
  /\ extractedText \in TextInputs
  /\ extractedItems = <<>>
  /\ splitterItems \in {<<>>, <<ManualItem>>}
  /\ toast = ""
  /\ step = "items"
  /\ billImage = <<extractedText>>
  /\ splitterFriends = <<>>

\* a processOCR that puts the extracted items behind the items of the list
ProcessOCRKeeping ==
  /\ isProcessingOCR
  /\ extractedItems' = parseReceiptText(extractedText, now)
  /\ IF Len(extractedItems') > 0
       THEN /\ splitterItems' = splitterItems \o extractedItems'
            /\ toast' = "Items extracted successfully!"
       ELSE /\ splitterItems' = splitterItems
            /\ toast' = "No items found"
  /\ isProcessingOCR' = FALSE
  /\ UNCHANGED <<extractedText, serverVars, appVars, hookVars, wizardVars>>

\* processOCR after the await, when the recognition succeeded
ProcessOCR ==
  /\ isProcessingOCR
  /\ extractedItems' = parseReceiptText(extractedText, now)
  /\ IF Len(extractedItems') > 0
       THEN /\ splitterItems' = extractedItems'
            /\ toast' = "Items extracted successfully!"
       ELSE /\ splitterItems' = splitterItems
            /\ toast' = "No items found"
  /\ isProcessingOCR' = FALSE
  /\ UNCHANGED <<extractedText, serverVars, appVars, hookVars, wizardVars>>

\* processOCR after the await, when the recognition threw
ProcessOCRFailed ==
  /\ isProcessingOCR
  /\ toast' = "OCR processing failed"
  /\ isProcessingOCR' = FALSE
  /\ UNCHANGED <<extractedText, extractedItems, splitterItems,
                 serverVars, appVars, hookVars, wizardVars>>

NextOCR ==
  \/ ProcessOCR
  \/ ProcessOCRFailed

SpecOCR == InitOCR /\ [][NextOCR]_vars

\* ------------------------------------------------------ the app (server.js)
\* the limiter counts the request and lets it pass while totalHits <= max
Counted(ip) == hits' = [hits EXCEPT ![ip] = @ + 1]

Passes(ip) == hits[ip] + 1 <= LimiterMax

\* the limiter's answer: res.status(429).send(message), a text and no JSON
TooManyRequests(ip, route, parts) ==
  /\ reply' = Reply(ip, route, parts, 429,
                    [text |-> "Too many requests from this IP, please try again later."])
  /\ UNCHANGED <<uploadDir, accessLog>>

\* the error handling middleware, given err.code
ErrorHandler(ip, route, parts, code) ==
  /\ reply' = IF code = "LIMIT_FILE_SIZE"
                THEN Reply(ip, route, parts, 400,
                           [error |-> "File too large",
                            message |-> "The uploaded file exceeds the maximum size limit."])
              ELSE IF code = "LIMIT_UNEXPECTED_FILE"
                THEN Reply(ip, route, parts, 400,
                           [error |-> "Invalid file",
                            message |-> "Only image files are allowed."])
              ELSE Reply(ip, route, parts, 500,
                         [error |-> "Internal server error",
                          message |-> "Something went wrong!"])
  /\ UNCHANGED <<uploadDir, accessLog>>

\* upload.single('receipt'): the error multer passes on, or "" when it made
\* req.file (or found no file part)
MulterError(parts) ==
  IF parts = <<>> THEN ""
  ELSE IF parts[1].fieldname # "receipt" THEN "LIMIT_UNEXPECTED_FILE"
  ELSE IF ~fileFilter(parts[1]) THEN "Only image files are allowed!"
  ELSE IF parts[1].tooLarge THEN "LIMIT_FILE_SIZE"
  ELSE ""

\* router.post('/receipt') after upload.single('receipt')
Receipt(ip, route, parts) ==
  IF parts = <<>>
    THEN /\ reply' = Reply(ip, route, parts, 400,
                           [success |-> FALSE, error |-> "No file uploaded",
                            message |-> "Please select a receipt image to upload."])
         /\ UNCHANGED <<uploadDir, accessLog>>
  ELSE IF ~parts[1].decodable
    THEN /\ reply' = Reply(ip, route, parts, 500,
                           [success |-> FALSE, error |-> "Upload failed",
                            message |-> "Input buffer contains unsupported image format"])
         /\ UNCHANGED <<uploadDir, accessLog>>
  ELSE LET fileId == Uuid(Cardinality(uploadDir) + 1)
       IN /\ uploadDir' = uploadDir \cup {fileId}
          /\ reply' = Reply(ip, route, parts, 201,
                            [success |-> TRUE, data |-> fileId,
                             message |-> "Receipt uploaded and processed successfully"])
          /\ accessLog' = [accessLog EXCEPT ![ip] = @ + 1]

\* POST /api/v1/upload/receipt
PostReceipt(ip, parts) ==
  LET route == "POST /api/v1/upload/receipt"
  IN /\ Counted(ip)
     /\ IF ~Passes(ip) THEN TooManyRequests(ip, route, parts)
        ELSE IF MulterError(parts) # "" THEN ErrorHandler(ip, route, parts, MulterError(parts))
        ELSE Receipt(ip, route, parts)
     /\ UNCHANGED serverVars

\* GET /api/v1/bills/session/:sessionId
GetBillSession(ip, sessionId) ==
  LET route == "GET /api/v1/bills/session/:sessionId"
  IN /\ Counted(ip)
     /\ IF ~Passes(ip)
          THEN TooManyRequests(ip, route, <<>>) /\ UNCHANGED serverVars
          ELSE /\ GetSession(sessionId)
               /\ reply' = IF res'.code = 404
                             THEN Reply(ip, route, <<>>, 404,
                                        [success |-> FALSE, error |-> "Session not found",
                                         message |-> "The requested bill session does not exist."])
                             ELSE Reply(ip, route, <<>>, 200,
                                        [success |-> TRUE, data |-> res'.data])
               /\ UNCHANGED <<uploadDir, accessLog>>

\* a request no router answers: the 404 handler
NotFound(ip) ==
  LET route == "GET /api/v1/nowhere"
  IN /\ Counted(ip)
     /\ IF ~Passes(ip)
          THEN TooManyRequests(ip, route, <<>>)
          ELSE /\ reply' = Reply(ip, route, <<>>, 404,
                                 [error |-> "Not found",
                                  message |-> "The requested resource was not found."])
               /\ UNCHANGED <<uploadDir, accessLog>>
     /\ UNCHANGED serverVars

\* windowMs have passed: the limiter's store forgets its counts
WindowElapsed ==
  /\ \E ip \in ClientIPs : hits[ip] > 0
  /\ hits' = [ip \in ClientIPs |-> 0]
  /\ accessLog' = [ip \in ClientIPs |-> 0]
  /\ UNCHANGED <<uploadDir, reply, billSessions, bills, uuidCount, now, res>>

\* a step of the app within the bounds: the limiter has refused at most one
\* request of a window and the page is not involved
BoundedApp ==
  /\ \A ip \in ClientIPs : hits'[ip] <= LimiterMax + 1
  /\ Cardinality(uploadDir') <= MaxFiles
  /\ UNCHANGED <<pageVars, hookVars, wizardVars>>

NextApp ==
  \/ \E ip \in ClientIPs, parts \in FilePartInputs : PostReceipt(ip, parts) /\ BoundedApp
  \/ \E ip \in ClientIPs, sessionId \in SessionIdInputs :
       GetBillSession(ip, sessionId) /\ BoundedApp
  \/ \E ip \in ClientIPs : NotFound(ip) /\ BoundedApp
  \/ WindowElapsed /\ BoundedApp

SpecApp == Init /\ [][NextApp]_vars

\* ------------------------------------------- the session hook (useBillSession)
\* the hook awaits at most this many responses at a time
MaxInFlight == 2

\* the lists the page hands to updateItems: a valid one and one with an empty name
HookItemInputs == {<<Item(1, "Tea", 10, <<1, 2>>)>>, <<Item(1, "", 5, <<1>>)>>}

\* the list the page hands to updateFriends
HookFriendInputs == {<<Friend(1, "Ann"), Friend(2, "Bob")>>}

\* the promises that are neither resolved nor rejected yet
InFlight == {r.id : r \in requests} \cup {r.id : r \in responses}

\* apiClient.request up to the fetch: the request leaves for the server
Request(op, sessionId, body) ==
  LET id == CHOOSE n \in 1..(Cardinality(InFlight) + 1) : n \notin InFlight
  IN requests' = requests \cup {[id |-> id, op |-> op, sessionId |-> sessionId,
                                 body |-> body]}

\* setLoading(true); setError(null); then the call of the apiClient
Call(op, sessionId, body) ==
  /\ loading' = TRUE
  /\ error' = <<>>
  /\ Request(op, sessionId, body)
  /\ UNCHANGED <<hookSession, responses>>
  /\ UNCHANGED <<serverVars, pageVars, appVars, wizardVars>>

createSession == Call("createSession", NoId, <<>>)

\* an updateItems that does not look whether there is a session
updateItemsAnyway(items) ==
  Call("updateItems", IF hookSession = <<>> THEN NoId ELSE hookSession[1].id, items)

updateItems(items) ==
  /\ hookSession # <<>>
  /\ Call("updateItems", hookSession[1].id, items)

updateFriends(friends) ==
  /\ hookSession # <<>>
  /\ Call("updateFriends", hookSession[1].id, friends)

calculateSplit ==
  /\ hookSession # <<>>
  /\ Call("calculateSplit", hookSession[1].id, <<>>)

\* the body is the hook's copy of the items and friends
saveBill ==
  /\ hookSession # <<>>
  /\ Call("saveBill", hookSession[1].id, <<hookSession[1].items, hookSession[1].friends>>)

\* the server handles a request of the hook and sends its answer
Serve(r) ==
  /\ r \in requests
  /\ CASE r.op = "createSession" -> CreateSession
       [] r.op = "updateItems" -> PutItems(r.sessionId, r.body)
       [] r.op = "updateFriends" -> PutFriends(r.sessionId, r.body)
       [] r.op = "calculateSplit" -> Calculate(r.sessionId)
       [] r.op = "saveBill" -> SaveBill(r.body[1], r.body[2], r.sessionId)
  /\ requests' = requests \ {r}
  /\ responses' = responses \cup {[id |-> r.id, op |-> r.op, status |-> res'.code,
                                   data |-> res'.data]}
  /\ UNCHANGED <<hookSession, loading, error>>
  /\ UNCHANGED <<pageVars, appVars, wizardVars>>

\* data.message || `HTTP error! status: ${response.status}` of a response that
\* is not ok: the validation answer has no message
ErrorMessage(status) ==
  IF status = 404 THEN "The requested bill session does not exist."
  ELSE IF status = 400 THEN "HTTP error! status: 400"
  ELSE "HTTP error! status: 500"

\* the await returns or throws: the rest of the try, the catch and the finally
Settle(r) ==
  /\ r \in responses
  /\ responses' = responses \ {r}
  /\ IF r.status < 400
       THEN /\ hookSession' = IF r.op # "saveBill" /\ r.data # <<>>
                                THEN r.data ELSE hookSession
            /\ error' = error
       ELSE /\ hookSession' = hookSession
            /\ error' = <<ErrorMessage(r.status)>>
  /\ loading' = FALSE
  /\ UNCHANGED requests
  /\ UNCHANGED <<serverVars, pageVars, appVars, wizardVars>>

\* fetch rejects: the request never reached the server
FetchFailed(r) ==
  /\ r \in requests
  /\ requests' = requests \ {r}
  /\ error' = <<"Failed to fetch">>
  /\ loading' = FALSE
  /\ UNCHANGED <<hookSession, responses>>
  /\ UNCHANGED <<serverVars, pageVars, appVars, wizardVars>>

\* a step of the hook and its server within the bounds: at most MaxInFlight
\* promises are pending and the hook asks for at most MaxSessions sessions
BoundedHook ==
  /\ Within(MaxSessions, MaxUuid, MaxClock)
  /\ Cardinality(requests') + Cardinality(responses') <= MaxInFlight
  /\ Cardinality(DOMAIN billSessions')
       + Cardinality({r \in requests' : r.op = "createSession"}) <= MaxSessions

NextHook ==
  \/ createSession /\ BoundedHook
  \/ \E items \in HookItemInputs : updateItems(items) /\ BoundedHook
  \/ \E friends \in HookFriendInputs : updateFriends(friends) /\ BoundedHook
  \/ calculateSplit /\ BoundedHook
  \/ saveBill /\ BoundedHook
  \/ \E r \in requests : Serve(r) /\ BoundedHook
  \/ \E r \in responses : Settle(r) /\ BoundedHook
  \/ \E r \in requests : FetchFailed(r) /\ BoundedHook

SpecHook == Init /\ [][NextHook]_vars

\* ------------------------------------------------- the wizard (BillSplitter)
\* the user keeps at most this many items and this many friends in the lists
MaxItems == 2

MaxFriends == 2

\* what the recognition yields for the photos the user takes: "Pizza 2 12.99",
\* which has an item, and "SUBTOTAL 5", which has none
WizardTextInputs ==
  {<<"P", "i", "z", "z", "a", " ", "2", " ", "1", "2", ".", "9", "9">>,
   <<"S", "U", "B", "T", "O", "T", "A", "L", " ", "5">>}

\* the names typed into the friend field
FriendNameInputs == {"Ann"}

\* the rest of the page's state is left alone, and so is all but the clock of
\* the server's
WizardFrame == UNCHANGED <<billSessions, bills, uuidCount, res, appVars, hookVars>>

\* reader.onload of handleImageCapture, up to the await in processOCR; text is
\* what the recognition of the photo will yield
handleImageCapture(text) ==
  /\ step = "photo"
  /\ ~isProcessingOCR
  /\ billImage' = <<text>>
  /\ step' = "items"
  /\ toast' = "Photo captured!"
  /\ isProcessingOCR' = TRUE
  /\ extractedText' = text
  /\ UNCHANGED <<extractedItems, splitterItems, splitterFriends, now>>
  /\ WizardFrame

\* the button "Skip Photo"
SkipPhoto ==
  /\ step = "photo"
  /\ step' = "items"
  /\ UNCHANGED <<billImage, splitterFriends, pageVars, now>>
  /\ WizardFrame

\* the button that calls processOCR(billImage) again, up to the await
ScanAgain ==
  /\ step = "items"
  /\ billImage # <<>>
  /\ ~isProcessingOCR
  /\ isProcessingOCR' = TRUE
  /\ extractedText' = billImage[1]
  /\ UNCHANGED <<extractedItems, splitterItems, toast, step, billImage,
                 splitterFriends, now>>
  /\ WizardFrame

\* addItem, with "Pie" and "5" in the fields
addItem ==
  /\ step = "items"
  /\ \E t \in ClockValues :
       /\ splitterItems' = Append(splitterItems, [ManualItem EXCEPT !.id = <<"manual", t>>])
       /\ now' = t
  /\ UNCHANGED <<isProcessingOCR, extractedText, extractedItems, toast, step,
                 billImage, splitterFriends>>
  /\ WizardFrame

removeItem(id) ==
  /\ step = "items"
  /\ splitterItems' = SelectSeq(splitterItems, LAMBDA i : i.id # id)
  /\ UNCHANGED <<isProcessingOCR, extractedText, extractedItems, toast, step,
                 billImage, splitterFriends, now>>
  /\ WizardFrame

\* the button "Continue to Add Friends", rendered when there are items
ContinueToFriends ==
  /\ step = "items"
  /\ Len(splitterItems) > 0
  /\ step' = "friends"
  /\ UNCHANGED <<billImage, splitterFriends, pageVars, now>>
  /\ WizardFrame

\* addFriend, with name in the field; the colour is its index in defaultColors
addFriend(name) ==
  /\ step = "friends"
  /\ \E t \in ClockValues :
       /\ splitterFriends' = Append(splitterFriends,
                                    [id |-> <<"friend", t>>, name |-> name,
                                     color |-> Len(splitterFriends) % 6])
       /\ now' = t
  /\ UNCHANGED <<step, billImage, pageVars>>
  /\ WizardFrame

\* a removeFriend that leaves the items as they are
removeFriendOnly(id) ==
  /\ step = "friends"
  /\ splitterFriends' = SelectSeq(splitterFriends, LAMBDA f : f.id # id)
  /\ UNCHANGED <<pageVars, step, billImage, now>>
  /\ WizardFrame

removeFriend(id) ==
  /\ step = "friends"
  /\ splitterFriends' = SelectSeq(splitterFriends, LAMBDA f : f.id # id)
  /\ splitterItems' = [i \in DOMAIN splitterItems |->
                         [splitterItems[i] EXCEPT
                            !.sharedWith = SelectSeq(@, LAMBDA friendId : friendId # id)]]
  /\ UNCHANGED <<isProcessingOCR, extractedText, extractedItems, toast, step,
                 billImage, now>>
  /\ WizardFrame

\* the button "Continue to Split Items", rendered when there are friends
ContinueToSplit ==
  /\ step = "friends"
  /\ Len(splitterFriends) > 0
  /\ step' = "split"
  /\ UNCHANGED <<billImage, splitterFriends, pageVars, now>>
  /\ WizardFrame

toggleFriendForItem(itemId, friendId) ==
  /\ step = "split"
  /\ splitterItems' =
       [i \in DOMAIN splitterItems |->
          IF splitterItems[i].id = itemId
            THEN [splitterItems[i] EXCEPT
                    !.sharedWith = IF friendId \in Range(@)
                                     THEN SelectSeq(@, LAMBDA id : id # friendId)
                                     ELSE Append(@, friendId)]
            ELSE splitterItems[i]]
  /\ UNCHANGED <<isProcessingOCR, extractedText, extractedItems, toast, step,
                 billImage, splitterFriends, now>>
  /\ WizardFrame

\* the button "Calculate Split", disabled while an item is shared with nobody
ShowResults ==
  /\ step = "split"
  /\ ~\E i \in DOMAIN splitterItems : Len(splitterItems[i].sharedWith) = 0
  /\ step' = "results"
  /\ UNCHANGED <<billImage, splitterFriends, pageVars, now>>
  /\ WizardFrame

\* the button "Start New Bill"
StartNewBill ==
  /\ step = "results"
  /\ step' = "photo"
  /\ UNCHANGED <<billImage, splitterFriends, pageVars, now>>
  /\ WizardFrame

\* the button "Share Results"
ShareResults ==
  /\ step = "results"
  /\ toast' = "Bill split complete!"
  /\ UNCHANGED <<isProcessingOCR, extractedText, extractedItems, splitterItems,
                 step, billImage, splitterFriends, now>>
  /\ WizardFrame

\* a step of the wizard within the bounds
BoundedWizard ==
  /\ Len(splitterItems') <= MaxItems
  /\ Len(splitterFriends') <= MaxFriends
  /\ now' <= MaxClock

NextWizard ==
  \/ \E text \in WizardTextInputs : handleImageCapture(text) /\ BoundedWizard
  \/ SkipPhoto /\ BoundedWizard
  \/ ScanAgain /\ BoundedWizard
  \/ ProcessOCR /\ BoundedWizard
  \/ ProcessOCRFailed /\ BoundedWizard
  \/ addItem /\ BoundedWizard
  \/ \E i \in DOMAIN splitterItems : removeItem(splitterItems[i].id) /\ BoundedWizard
  \/ ContinueToFriends /\ BoundedWizard
  \/ \E name \in FriendNameInputs : addFriend(name) /\ BoundedWizard
  \/ \E f \in DOMAIN splitterFriends : removeFriend(splitterFriends[f].id) /\ BoundedWizard
  \/ ContinueToSplit /\ BoundedWizard
  \/ \E i \in DOMAIN splitterItems, f \in DOMAIN splitterFriends :
       toggleFriendForItem(splitterItems[i].id, splitterFriends[f].id) /\ BoundedWizard
  \/ ShowResults /\ BoundedWizard
  \/ StartNewBill /\ BoundedWizard
  \/ ShareResults /\ BoundedWizard

SpecWizard == Init /\ [][NextWizard]_vars

\* ---------------------------------------------------------------- claims
\* a step that answers a request `op` on session `sid`
Answers(op, sid) == res'.op = op /\ res'.sid = sid

\* the ids of the friends of a session
FriendIds(session) == {session.friends[i].id : i \in DOMAIN session.friends}

RECURSIVE SumAmounts(_, _)
SumAmounts(splits, k) ==
  IF k > Len(splits) THEN 0 ELSE splits[k].amount + SumAmounts(splits, k + 1)

RECURSIVE SumAssigned(_, _)
SumAssigned(items, k) ==
  IF k > Len(items) THEN 0
  ELSE (IF Len(items[k].sharedWith) > 0 THEN items[k].price * Scale ELSE 0)
         + SumAssigned(items, k + 1)

\* a bill was saved for the session
Finalized(sid) == \E i \in DOMAIN bills : bills[i].sessionId = sid

\* C1: a successful PUT items or PUT friends on a session whose status is
\* calculated sets the status back to draft and clears splits and totalAmount.
C1_MutationResetsCalculated ==
  [][\A sid \in DOMAIN billSessions :
       (/\ billSessions[sid].status = "calculated"
        /\ Answers("putItems", sid) \/ Answers("putFriends", sid)
        /\ res'.code = 200)
       => /\ billSessions'[sid].status = "draft"
          /\ billSessions'[sid].splits = <<>>
          /\ billSessions'[sid].totalAmount = <<>>]_vars

\* C2: in every state, a session whose status is calculated stores the splits
\* and the totalAmount that the split computation yields for its current items
\* and friends.
C2_CalculatedIsFresh ==
  \A sid \in DOMAIN billSessions :
    billSessions[sid].status = "calculated"
      => /\ billSessions[sid].splits =
              ComputeSplits(billSessions[sid].items, billSessions[sid].friends)
         /\ billSessions[sid].totalAmount = <<TotalBill(billSessions[sid].items)>>

\* C3: in every state, every item's sharedWith names only ids of friends of
\* the same session.
C3_SharedWithAreFriends ==
  \A sid \in DOMAIN billSessions :
    \A i \in DOMAIN billSessions[sid].items :
      Range(billSessions[sid].items[i].sharedWith) \subseteq FriendIds(billSessions[sid])

\* C4: after a calculate of a session that has friends, the split amounts add
\* up to the prices of the items that have a non-empty sharedWith, to within
\* 0.01 per item.
C4_SplitsSumToAssigned ==
  [][\A sid \in DOMAIN billSessions :
       (Answers("calculate", sid) /\ res'.code = 200 /\ billSessions[sid].friends # <<>>)
       => LET session == billSessions'[sid]
              diff == SumAmounts(session.splits, 1) - SumAssigned(session.items, 1)
          IN /\ diff * 100 <= Scale * Len(session.items)
             /\ (0 - diff) * 100 <= Scale * Len(session.items)]_vars

\* C5: calculate on a session without friends fails and leaves status, splits
\* and totalAmount unchanged.
C5_CalculateNeedsFriends ==
  [][\A sid \in DOMAIN billSessions :
       (Answers("calculate", sid) /\ billSessions[sid].friends = <<>>)
       => /\ res'.code \notin {200, 201}
          /\ billSessions'[sid].status = billSessions[sid].status
          /\ billSessions'[sid].splits = billSessions[sid].splits
          /\ billSessions'[sid].totalAmount = billSessions[sid].totalAmount]_vars

\* C6: saving the bill of a session whose status is draft fails and stores no
\* bill.
C6_FinalizeNeedsCalculated ==
  [][\A sid \in DOMAIN billSessions :
       (Answers("saveBill", sid) /\ billSessions[sid].status = "draft")
       => /\ res'.code \notin {200, 201}
          /\ bills' = bills]_vars

\* C7: a successful save of the bill of a session sets the status of that
\* session to completed.
C7_FinalizeCompletes ==
  [][\A sid \in DOMAIN billSessions :
       (Answers("saveBill", sid) /\ res'.code = 201)
       => billSessions'[sid].status = "completed"]_vars

\* C8: once the bill of a session has been saved, every PUT items and PUT
\* friends on the session fails and leaves the session as it is.
C8_CompletedIsFrozen ==
  [][\A sid \in DOMAIN billSessions :
       (/\ Finalized(sid)
        /\ Answers("putItems", sid) \/ Answers("putFriends", sid))
       => /\ res'.code \notin {200, 201}
          /\ billSessions'[sid] = billSessions[sid]]_vars

\* C9: the bill saved for a calculated session holds the items, friends, splits
\* and totalAmount that the session stores at that moment.
C9_BillIsSessionSnapshot ==
  [][\A sid \in DOMAIN billSessions :
       (/\ Answers("saveBill", sid) /\ res'.code = 201
        /\ billSessions[sid].status = "calculated")
       => LET bill == bills'[Len(bills')]
              session == billSessions[sid]
          IN /\ bill.items = session.items
             /\ bill.friends = session.friends
             /\ DOMAIN bill.totals = {session.splits[i].friendId : i \in DOMAIN session.splits}
             /\ \A i \in DOMAIN session.splits :
                  bill.totals[session.splits[i].friendId] = session.splits[i].amount
             /\ <<bill.totalBill>> = session.totalAmount]_vars

\* C10: a calculate that directly follows a successful calculate of the same
\* session leaves splits, totalAmount and status as the first left them and
\* changes nothing but the session's updatedAt (and the response).
C10_CalculateIdempotent ==
  [][\A sid \in DOMAIN billSessions :
       (/\ res.op = "calculate" /\ res.sid = sid /\ res.code = 200
        /\ Answers("calculate", sid))
       => /\ res'.code = 200
          /\ billSessions'[sid].splits = billSessions[sid].splits
          /\ billSessions'[sid].totalAmount = billSessions[sid].totalAmount
          /\ billSessions'[sid].status = billSessions[sid].status
          /\ billSessions' =
               [billSessions EXCEPT ![sid].updatedAt = billSessions'[sid].updatedAt]
          /\ UNCHANGED <<bills, uuidCount>>]_vars

\* C10 witness: a calculate of a session with items and friends has been
\* answered after the clock moved on, and somebody owes a positive amount.
C10_Witness ==
  /\ res.op = "calculate" /\ res.code = 200
  /\ \E sid \in DOMAIN billSessions :
       /\ res.sid = sid
       /\ billSessions[sid].status = "calculated"
       /\ billSessions[sid].updatedAt > billSessions[sid].createdAt
       /\ \E i \in DOMAIN billSessions[sid].splits : billSessions[sid].splits[i].amount > 0

\* the share of friend `fid` in `item` when the price is divided evenly among
\* the distinct ids of sharedWith, in 1/Scale units
EvenShare(item, fid) ==
  IF fid \in Range(item.sharedWith)
    THEN (item.price * Scale) \div Cardinality(Range(item.sharedWith))
    ELSE 0

RECURSIVE SumEvenShares(_, _, _)
SumEvenShares(items, fid, k) ==
  IF k > Len(items) THEN 0
  ELSE EvenShare(items[k], fid) + SumEvenShares(items, fid, k + 1)

\* C11: after a calculate, the split of every participant is the sum, over the
\* items whose sharedWith contains them, of the price divided by the number of
\* distinct participants in that sharedWith.
C11_SplitIsSumOfEvenShares ==
  [][\A sid \in DOMAIN billSessions :
       (Answers("calculate", sid) /\ res'.code = 200)
       => LET session == billSessions'[sid]
          IN \A i \in DOMAIN session.friends :
               /\ i \in DOMAIN session.splits
               /\ session.splits[i].amount
                    = SumEvenShares(session.items, session.friends[i].id, 1)]_vars

\* C11, the example: items [{10, {A, B}}, {5, {A}}] and participants [A, B]
\* give A 10, B 5 and a total of 15
C11_Example ==
  \A sid \in DOMAIN billSessions :
    (/\ billSessions[sid].items = <<Item(1, "Tea", 10, <<1, 2>>), Item(2, "Pie", 5, <<1>>)>>
     /\ billSessions[sid].friends = <<Friend(1, "Ann"), Friend(2, "Bob")>>
     /\ res.op = "calculate" /\ res.sid = sid /\ res.code = 200)
    => /\ billSessions[sid].splits[1].amount = 10 * Scale
       /\ billSessions[sid].splits[2].amount = 5 * Scale
       /\ billSessions[sid].totalAmount = <<Number(15 * Scale)>>

\* the friend id occurs in the sharedWith of no item
Unassigned(items, fid) == \A k \in DOMAIN items : fid \notin Range(items[k].sharedWith)

\* C12: after a calculate, splits holds one entry for every participant of the
\* session, in the order of the participants, and no other entry; the entry of a
\* participant to whom no item is assigned has amount 0.
C12_OneSplitPerFriend ==
  [][\A sid \in DOMAIN billSessions :
       (Answers("calculate", sid) /\ res'.code = 200)
       => LET session == billSessions'[sid]
          IN /\ Len(session.splits) = Len(session.friends)
             /\ \A i \in DOMAIN session.friends :
                  /\ session.splits[i].friendId = session.friends[i].id
                  /\ session.splits[i].friendName = session.friends[i].name
                  /\ Unassigned(session.items, session.friends[i].id)
                       => session.splits[i].amount = 0]_vars

\* a calculate has answered for a session of two friends and one item that is
\* assigned to neither
C12_Witness ==
  \E sid \in DOMAIN billSessions :
    /\ res.op = "calculate" /\ res.sid = sid /\ res.code = 200
    /\ Len(billSessions[sid].friends) = 2
    /\ Len(billSessions[sid].splits) = 2
    /\ billSessions[sid].items # <<>>
    /\ \A i \in DOMAIN billSessions[sid].friends :
         Unassigned(billSessions[sid].items, billSessions[sid].friends[i].id)

\* the sum of the prices of items[k..], as numbers, in 1/Scale units
RECURSIVE SumOfPrices(_, _)
SumOfPrices(items, k) ==
  IF k > Len(items) THEN 0 ELSE items[k].price * Scale + SumOfPrices(items, k + 1)

IsAssigned(item) == item.sharedWith # <<>>

\* C13: after a calculate, totalAmount is the sum of the prices of all items of
\* the session, those with an empty sharedWith included, and the splits are the
\* ones the items with a non-empty sharedWith give alone.
C13_TotalIsSumOfAllPrices ==
  [][\A sid \in DOMAIN billSessions :
       (Answers("calculate", sid) /\ res'.code = 200)
       => LET session == billSessions'[sid]
          IN /\ session.totalAmount = <<Number(SumOfPrices(session.items, 1))>>
             /\ session.splits
                  = ComputeSplits(SelectSeq(session.items, IsAssigned), session.friends)]_vars

\* list.filter(id => id !== fid)
Without(list, fid) == LET Other(id) == id # fid IN SelectSeq(list, Other)

\* C14: after a participant is removed from a session, no item's sharedWith
\* contains their id, and the items are otherwise as they were: same names,
\* prices and order, same other assignees.
C14_RemovedFriendLeavesItems ==
  [][\A sid \in DOMAIN billSessions :
       (Answers("putFriends", sid) /\ res'.code = 200)
       => \A fid \in FriendIds(billSessions[sid]) \ FriendIds(billSessions'[sid]) :
            LET before == billSessions[sid].items
                after == billSessions'[sid].items
            IN /\ Len(after) = Len(before)
               /\ \A k \in DOMAIN before :
                    after[k] = [before[k] EXCEPT !.sharedWith = Without(@, fid)]]_vars

\* every entry of the list has an id and no two entries have the same
UniqueIds(list) ==
  /\ \A i \in DOMAIN list : list[i].id # NoId
  /\ \A i, j \in DOMAIN list : list[i].id = list[j].id => i = j

\* C15: after a successful PUT items or PUT friends, every item and every
\* participant of the session has an id, no two items share one and no two
\* participants share one, whatever ids the caller supplied.
C15_IdsAreUnique ==
  [][\A sid \in DOMAIN billSessions :
       /\ (Answers("putItems", sid) /\ res'.code = 200)
            => UniqueIds(billSessions'[sid].items)
       /\ (Answers("putFriends", sid) /\ res'.code = 200)
            => UniqueIds(billSessions'[sid].friends)]_vars

\* C16: the status of a session becomes "calculated" only in a calculate of
\* that session that succeeds; no create, get, PUT items, PUT friends or save
\* bill makes it so.
C16_OnlyCalculateCalculates ==
  [][\A sid \in DOMAIN billSessions' :
       (/\ billSessions'[sid].status = "calculated"
        /\ (sid \in DOMAIN billSessions => billSessions[sid].status # "calculated"))
       => (Answers("calculate", sid) /\ res'.code = 200)]_vars

\* a calculate has turned a draft session with items into a calculated one
C16_Witness ==
  \E sid \in DOMAIN billSessions :
    /\ res.op = "calculate" /\ res.sid = sid /\ res.code = 200
    /\ billSessions[sid].status = "calculated"
    /\ billSessions[sid].items # <<>>

\* the item has an empty name, a negative price or a price that is no number
InvalidItem(item) == item.name = "" \/ item.price < 0 \/ item.priceIs = "other string"

\* C17: a PUT items whose body holds an item with an empty name or with a
\* negative or non-numeric price, and a PUT friends whose body holds a
\* participant with an empty name, is answered with the validation error and
\* leaves every session (items, friends, splits, totalAmount, status,
\* updatedAt) and the saved bills unchanged.
C17_InvalidBodyIsRejected ==
  [][/\ res'.op = "putItems"
        => \A items \in ItemListInputs :
             ((\E i \in DOMAIN items : InvalidItem(items[i])) /\ PutItems(res'.sid, items))
             => /\ res'.code = 400
                /\ UNCHANGED <<billSessions, bills>>
     /\ res'.op = "putFriends"
        => \A friends \in FriendListInputs :
             ((\E i \in DOMAIN friends : friends[i].name = "")
                /\ PutFriends(res'.sid, friends))
             => /\ res'.code = 400
                /\ UNCHANGED <<billSessions, bills>>]_vars

\* an invalid PUT items or PUT friends has been answered for a session that
\* holds items and friends and is calculated
C17_Witness ==
  \E sid \in DOMAIN billSessions :
    /\ res.op \in {"putItems", "putFriends"} /\ res.sid = sid /\ res.code = 400
    /\ billSessions[sid].items # <<>>
    /\ billSessions[sid].friends # <<>>
    /\ billSessions[sid].status = "calculated"

\* C18 as stated: a GET session, PUT items, PUT friends or calculate that names
\* a session id that is not in the store is answered 404, creates no session
\* and changes no session.
C18_UnknownIdIsNotFound ==
  [][(/\ res'.op \in {"getSession", "putItems", "putFriends", "calculate"}
      /\ res'.sid \notin DOMAIN billSessions)
     => /\ res'.code = 404
        /\ UNCHANGED <<billSessions, bills>>]_vars

\* C18, amended: a GET session or calculate that names a session id that is
\* not in the store is answered 404; so is a PUT items or PUT friends whose
\* body passes validation, while one whose body fails validation is answered
\* 400; none of them creates a session or changes one.
C18_UnknownIdIsNotFoundIfValid ==
  [][res'.sid \notin DOMAIN billSessions
     => /\ res'.op \in {"getSession", "calculate"}
           => /\ res'.code = 404
              /\ UNCHANGED <<billSessions, bills>>
        /\ res'.op = "putItems"
           => \A items \in ItemListInputs :
                PutItems(res'.sid, items)
                => /\ res'.code = IF \E i \in DOMAIN items : InvalidItem(items[i])
                                    THEN 400 ELSE 404
                   /\ UNCHANGED <<billSessions, bills>>
        /\ res'.op = "putFriends"
           => \A friends \in FriendListInputs :
                PutFriends(res'.sid, friends)
                => /\ res'.code = IF \E i \in DOMAIN friends : friends[i].name = ""
                                    THEN 400 ELSE 404
                   /\ UNCHANGED <<billSessions, bills>>]_vars

\* a valid PUT items that names an unknown id has been answered 404 while the
\* store holds a session with items
C18_Witness ==
  /\ res.op = "putItems" /\ res.code = 404
  /\ res.sid \notin DOMAIN billSessions
  /\ \E sid \in DOMAIN billSessions : billSessions[sid].items # <<>>

\* C19: a request on one session id leaves the items, friends, splits,
\* totalAmount and status of every other session of the store unchanged.
C19_OtherSessionsUntouched ==
  [][\A sid \in DOMAIN billSessions :
       res'.sid # sid
       => /\ sid \in DOMAIN billSessions'
          /\ billSessions'[sid].items = billSessions[sid].items
          /\ billSessions'[sid].friends = billSessions[sid].friends
          /\ billSessions'[sid].splits = billSessions[sid].splits
          /\ billSessions'[sid].totalAmount = billSessions[sid].totalAmount
          /\ billSessions'[sid].status = billSessions[sid].status]_vars

\* a calculate has answered for one session while the store holds another
\* session that has items and is still a draft
C19_Witness ==
  \E sid, other \in DOMAIN billSessions :
    /\ sid # other
    /\ res.op = "calculate" /\ res.sid = sid /\ res.code = 200
    /\ billSessions[sid].status = "calculated"
    /\ billSessions[other].items # <<>>
    /\ billSessions[other].status = "draft"

\* processOCR has parsed the recognised text
Parsed == toast \in {"Items extracted successfully!", "No items found"}

\* a reserved word occurs in the line, in any letter case
HasReservedWord(line) == \E word \in ReservedWords : Includes(toLowerCase(line), word)

\* a reserved word occurs, in any letter case, in the part of the line that
\* precedes its first digit
HasReservedWordBeforePrice(line) ==
  LET digits == {i \in DOMAIN line : IsDigit(line[i])}
      first == IF digits = {} THEN Len(line) + 1
               ELSE CHOOSE i \in digits : \A j \in digits : i <= j
  IN HasReservedWord(SubSeq(line, 1, first - 1))

LacksReservedWord(line) == ~HasReservedWord(line)

LacksReservedWordBeforePrice(line) == ~HasReservedWordBeforePrice(line)

\* the lines parseReceiptText loops over
LinesOf(text) == SelectSeq(Split(text), NotBlank)

\* C20 as stated: extraction produces no item from a line that contains
\* "total", "tax", "subtotal" or "tip" in any letter case: the items are those
\* of the text without these lines.
C20_NoItemFromReservedLine ==
  Parsed => extractedItems
              = ParseLines(SelectSeq(LinesOf(extractedText), LacksReservedWord),
                           1, <<>>, now)

\* C20, amended: extraction produces no item from a line in which "total",
\* "tax", "subtotal" or "tip" occurs, in any letter case, before the first
\* digit of the line: the items are those of the text without these lines.
C20_NoItemFromReservedName ==
  Parsed => extractedItems
              = ParseLines(SelectSeq(LinesOf(extractedText), LacksReservedWordBeforePrice),
                           1, <<>>, now)

\* the receipt has been parsed: two items from five lines, three of which
\* start with a reserved word and carry a price
C20_Witness ==
  /\ Parsed
  /\ extractedText = ReceiptText
  /\ Len(extractedItems) = 2
  /\ Cardinality({k \in DOMAIN LinesOf(extractedText) :
                    /\ HasReservedWordBeforePrice(LinesOf(extractedText)[k])
                    /\ Match(1, LinesOf(extractedText)[k]) # <<>>}) = 3

\* the first pattern, in the order of itemPatterns, that matches the line
\* yields a candidate that is not accepted
FirstMatchRejected(line) ==
  LET matching == {pattern \in 1..3 : Match(pattern, line) # <<>>}
  IN /\ matching # {}
     /\ LET first == CHOOSE a \in matching : \A b \in matching : a <= b
            match == Match(first, line)
        IN ~Accepted(Trim(match[1]), parseFloat(match[2]))

FirstMatchNotRejected(line) == ~FirstMatchRejected(line)

\* C21: the first pattern that matches a line decides alone: when its
\* candidate is rejected the line yields no item, so the items are those of
\* the text without the lines whose first match is rejected.
C21_FirstMatchDecides ==
  Parsed => extractedItems
              = ParseLines(SelectSeq(LinesOf(extractedText), FirstMatchNotRejected),
                           1, <<>>, now)

\* the line holds a decimal point that is followed by a digit
HasDecimal(line) == \E i \in DOMAIN line : line[i] = "." /\ DigitAt(line, i + 1)

\* C22: a price needs a decimal point followed by a digit: a line without a
\* fractional number yields no item, so the items are those of the lines that
\* hold a decimal.
C22_PriceNeedsFraction ==
  Parsed => extractedItems
              = ParseLines(SelectSeq(LinesOf(extractedText), HasDecimal), 1, <<>>, now)

\* the index at which the longest run of digits that ends at e starts
DigitsStart(line, e) ==
  CHOOSE b \in 1..(e + 1) :
    /\ \A j \in b..e : IsDigit(line[j])
    /\ b > 1 => ~IsDigit(line[b - 1])

\* the line read as <name><white space><price>, the price written as
\* digits.digits, $digits.digits or digits.digits$ at the end of the line:
\* <<name, price>>, the name trimmed, or <<>> when the line is not of that shape
NameAndPrice(line) ==
  LET dollarLast == line # <<>> /\ line[Len(line)] = "$"
      e == IF dollarLast THEN Len(line) - 1 ELSE Len(line)
      f == DigitsStart(line, e)
      i == IF f >= 2 THEN DigitsStart(line, f - 2) ELSE f
      wellFormed == f <= e /\ f >= 3 /\ line[f - 1] = "." /\ i <= f - 2
      t == IF ~dollarLast /\ i >= 2 /\ line[i - 1] = "$" THEN i - 1 ELSE i
  IN IF wellFormed /\ t >= 2 /\ IsSpace(line[t - 1])
       THEN <<Trim(SubSeq(line, 1, t - 1)), parseFloat(SubSeq(line, i, e))>>
       ELSE <<>>

\* a line of that shape whose name and price pass the acceptance test
IsItemLine(line) ==
  /\ NameAndPrice(line) # <<>>
  /\ Len(NameAndPrice(line)[1]) >= 3
  /\ \A word \in ReservedWords : ~Includes(toLowerCase(NameAndPrice(line)[1]), word)
  /\ NameAndPrice(line)[2].num > 0

\* C23: when every line of the text is an acceptable name, white space and a
\* price written as digits.digits, $digits.digits or digits.digits$, extraction
\* yields one item per line, whose name is the whole trimmed text before the
\* price and whose price is that decimal.
C23_NameIsAllBeforePrice ==
  (Parsed /\ \A k \in DOMAIN LinesOf(extractedText) : IsItemLine(LinesOf(extractedText)[k]))
  => /\ Len(extractedItems) = Len(LinesOf(extractedText))
     /\ \A k \in DOMAIN extractedItems :
          /\ extractedItems[k].name = NameAndPrice(LinesOf(extractedText)[k])[1]
          /\ extractedItems[k].price = NameAndPrice(LinesOf(extractedText)[k])[2]

\* C23 on the lines whose name holds no white space followed by a digit
C23_Plain ==
  (/\ Parsed
   /\ \A k \in DOMAIN LinesOf(extractedText) :
        /\ IsItemLine(LinesOf(extractedText)[k])
        /\ Match(2, NameAndPrice(LinesOf(extractedText)[k])[1] \o <<" ">>) = <<>>)
  => /\ Len(extractedItems) = Len(LinesOf(extractedText))
     /\ \A k \in DOMAIN extractedItems :
          /\ extractedItems[k].name = NameAndPrice(LinesOf(extractedText)[k])[1]
          /\ extractedItems[k].price = NameAndPrice(LinesOf(extractedText)[k])[2]

\* C24: every item extraction returns has a price greater than 0 and a trimmed
\* name of at least 3 characters that contains none of "total", "tax",
\* "subtotal", "tip" in any letter case.
C24_ItemsAreAcceptable ==
  Parsed => \A k \in DOMAIN extractedItems :
              /\ extractedItems[k].price.num > 0
              /\ extractedItems[k].name = Trim(extractedItems[k].name)
              /\ Len(extractedItems[k].name) >= 3
              /\ ~HasReservedWord(extractedItems[k].name)

\* an item was extracted from a text that also holds a reserved word
C24_Witness ==
  /\ Parsed
  /\ extractedItems # <<>>
  /\ HasReservedWord(extractedText)
  /\ \E i \in DOMAIN extractedText : IsSpace(extractedText[i])

\* the name and price a line yields, as a list of no or one <<name, price>>
YieldOf(line) ==
  LET list == ParseLine(line, <<>>, 0)
  IN [k \in DOMAIN list |-> <<list[k].name, list[k].price>>]

RECURSIVE YieldsFrom(_, _)
YieldsFrom(lines, k) ==
  IF k > Len(lines) THEN <<>> ELSE YieldOf(lines[k]) \o YieldsFrom(lines, k + 1)

\* C25: extraction returns at most one item per non-empty line, in the order
\* of the lines, each with an empty sharedWith; for the receipt of five lines
\* it returns (Caesar Salad, 12.99) and then (Iced Tea, 3.50).
C25_OneItemPerLineInOrder ==
  Parsed =>
    /\ \A k \in DOMAIN LinesOf(extractedText) : Len(YieldOf(LinesOf(extractedText)[k])) <= 1
    /\ [k \in DOMAIN extractedItems |-> <<extractedItems[k].name, extractedItems[k].price>>]
         = YieldsFrom(LinesOf(extractedText), 1)
    /\ \A k \in DOMAIN extractedItems : extractedItems[k].sharedWith = <<>>
    /\ extractedText = ReceiptText
         => [k \in DOMAIN extractedItems |-> <<extractedItems[k].name, extractedItems[k].price>>]
              = << <<(<<"C", "a", "e", "s", "a", "r", " ", "S", "a", "l", "a", "d">>),
                     [num |-> 1299, den |-> 100]>>,
                   <<(<<"I", "c", "e", "d", " ", "T", "e", "a">>),
                     [num |-> 35, den |-> 10]>> >>

\* the receipt of five lines has been parsed into two items
C25_Witness ==
  /\ Parsed
  /\ extractedText = ReceiptText
  /\ Len(LinesOf(extractedText)) = 5
  /\ Len(extractedItems) = 2
  /\ extractedItems[1].name # extractedItems[2].name

\* C26: from one client IP at most UploadMax receipt uploads are accepted
\* within a window of the limiter; whatever is sent after that stores no file
C26_AtMostFiveUploadsPerWindow ==
  \A ip \in ClientIPs : accessLog[ip] <= UploadMax

\* the step answers a request of the client reply'.ip
Replies == reply'.ip \in ClientIPs /\ Counted(reply'.ip)

\* C27: every error response, the 404 handler's and the error handling
\* middleware's included, carries success = false and an error field
C27_ErrorsCarryEnvelope ==
  reply.status >= 400 =>
    /\ "success" \in DOMAIN reply.body
    /\ reply.body.success = FALSE
    /\ "error" \in DOMAIN reply.body

\* C28: an upload of a file whose type is not JPEG, PNG or WebP is rejected
\* and stores nothing
C28_OnlyJpegPngWebp ==
  [][(/\ Replies
      /\ reply'.route = "POST /api/v1/upload/receipt"
      /\ reply'.parts # <<>>
      /\ ~isValidImageFile(reply'.parts[1].mimetype))
     => reply'.status >= 400 /\ uploadDir' = uploadDir]_vars

\* no request of the hook is on its way and no answer either
Idle == requests = {} /\ responses = {}

\* C29: once no request is in flight, the hook's session is the session the
\* server stores under its id, whatever the order of the calls and answers
C29_HookSessionIsStoredSession ==
  (Idle /\ hookSession # <<>>) =>
    /\ hookSession[1].id \in DOMAIN billSessions
    /\ hookSession[1] = billSessions[hookSession[1].id]

\* C30: while the step on display is 'results', every item of the list is
\* shared with somebody, also after a scan that ends late
C30_ResultsShowAssignedItems ==
  step = "results" =>
    \A i \in DOMAIN splitterItems : Len(splitterItems[i].sharedWith) > 0

\* C31: loading is true as long as a request of the hook awaits its answer,
\* also when two calls overlap
C31_LoadingWhileInFlight == ~Idle => loading

\* the calls of the hook that need a session
SessionCalls == {"updateItems", "updateFriends", "calculateSplit", "saveBill"}

\* the step is the end of a call that failed with the message `message`:
\* the session is as before, error is the message and loading is false
FailsWith(message) ==
  /\ hookSession' = hookSession
  /\ error' = <<message>>
  /\ loading' = FALSE

\* C35: a call that fails, by an answer that is not ok or by a fetch that
\* rejects, leaves the session as it is, sets error to the failure message and
\* resets loading; and without a session no call but createSession sends a
\* request or changes the hook's state
C35_FailureLeavesSession ==
  [][(\A r \in responses :
        (r.status >= 400 /\ responses' = responses \ {r} /\ requests' = requests)
          => FailsWith(ErrorMessage(r.status)))
     /\ (\A r \in requests :
           (requests' = requests \ {r} /\ responses' = responses)
             => FailsWith("Failed to fetch"))
     /\ (\A r \in requests' \ requests : r.op \in SessionCalls => hookSession # <<>>)
     /\ ((hookSession = <<>> /\ hookVars' # hookVars)
           => \A r \in requests \cup responses \cup requests' \cup responses' :
                r.op = "createSession")]_vars

\* the server has refused an updateItems of a hook that has a session
C35_Witness ==
  /\ hookSession # <<>>
  /\ Idle
  /\ ~loading
  /\ error = <<"HTTP error! status: 400">>

\* a scan comes to its end in this step
ScanEnds == isProcessingOCR /\ ~isProcessingOCR'

AllUnassigned(list) == \A i \in DOMAIN list : list[i].sharedWith = <<>>

\* C32: a scan that ends with an extracted item makes the item list the
\* extracted items, all unassigned, whatever the list held; a scan that
\* extracts nothing or fails leaves the list as it is
C32_ScanReplacesOrKeepsItems ==
  [][ScanEnds =>
       IF toast' = "Items extracted successfully!"
         THEN /\ Len(parseReceiptText(extractedText, now)) > 0
              /\ splitterItems' = parseReceiptText(extractedText, now)
              /\ AllUnassigned(splitterItems')
         ELSE /\ toast' \in {"No items found", "OCR processing failed"}
              /\ toast' = "No items found" => parseReceiptText(extractedText, now) = <<>>
              /\ splitterItems' = splitterItems]_vars

\* a scan has ended with an item after the user had assigned the items of the
\* list and asked for the results
C32_Witness ==
  /\ step = "results"
  /\ ~isProcessingOCR
  /\ Len(splitterItems) > 0
  /\ splitterItems = extractedItems
  /\ AllUnassigned(splitterItems)

\* no element of the list occurs in it twice
NoRepeat(list) == \A i, j \in DOMAIN list : list[i] = list[j] => i = j

\* C33: in the wizard every sharedWith names friends of the friends list
\* only, and none of them twice
C33_SharedWithNamesFriendsOnce ==
  \A i \in DOMAIN splitterItems :
    /\ Range(splitterItems[i].sharedWith)
         \subseteq {splitterFriends[f].id : f \in DOMAIN splitterFriends}
    /\ NoRepeat(splitterItems[i].sharedWith)

\* an item is shared by two friends and the user is back at the friends step,
\* where friends are added and removed
C33_Witness ==
  /\ step = "friends"
  /\ \E i \in DOMAIN splitterItems : Len(splitterItems[i].sharedWith) = 2

\* every price of the list is a JSON number
NumericPrices(items) == \A i \in DOMAIN items : items[i].priceIs = "number"

\* the amounts and the total of a calculated session are those the helpers
\* give for its items and friends
SessionAgreesWithHelpers(session) ==
  /\ \A k \in DOMAIN session.splits :
       session.splits[k].amount =
         calculateBillSplit(session.items, session.friends)[session.splits[k].friendId]
  /\ {session.splits[k].friendId : k \in DOMAIN session.splits}
       = DOMAIN calculateBillSplit(session.items, session.friends)
  /\ session.totalAmount = <<calculateTotalBill(session.items)>>

\* the totals and the total of a saved bill are those the helpers give
BillAgreesWithHelpers(bill) ==
  /\ bill.totals = calculateBillSplit(bill.items, bill.friends)
  /\ bill.totalBill = calculateTotalBill(bill.items)

\* C34: for items with numeric prices the calculate route and the save-bill
\* route give the amounts and the total that calculateBillSplit and
\* calculateTotalBill give for the same lists, also when a sharedWith names a
\* stranger or names an id twice
C34_RoutesAgreeWithHelpers ==
  [][/\ (res'.op = "calculate" /\ res'.code = 200
            /\ NumericPrices(res'.data[1].items))
         => SessionAgreesWithHelpers(res'.data[1])
     /\ (res'.op = "saveBill" /\ res'.code = 201
            /\ NumericPrices(res'.data[1].items))
         => BillAgreesWithHelpers(res'.data[1])]_vars

\* a bill was saved from a calculated session whose item names a friend
\* twice, with numeric prices
C34_Witness ==
  /\ res.op = "saveBill"
  /\ res.code = 201
  /\ NumericPrices(res.data[1].items)
  /\ \E i \in DOMAIN res.data[1].items : ~NoRepeat(res.data[1].items[i].sharedWith)
  /\ \E s \in DOMAIN billSessions :
       /\ billSessions[s].status = "calculated"
       /\ billSessions[s].items = res.data[1].items
       /\ billSessions[s].friends = res.data[1].friends
====
